---- MODULE Spec2Model ----
(***************************************************************************)
(* Model of the ESP32 battery monitor (src/main.py): the startup connect,  *)
(* the replay of buffer.json (flush_buffer), the sampling loop with its    *)
(* live-or-buffer decision (send_data / save_to_buffer), interruption of   *)
(* the process and its restart.  buffer.json is modelled as the sequence   *)
(* of JSON tokens it holds, so that a write cut short leaves a prefix.     *)
(***************************************************************************)
EXTENDS Integers, Sequences, FiniteSets, TLC

\* Readings taken over the whole history (all runs) that the model tracks.
MaxSamples == 3

\* range(20) of connect_wifi.
MaxAttempts == 20

\* round(real_voltage, 3), in millivolts.
Voltages == {12000, 12500}

Timestamps == 0..(MaxSamples - 1)

Readings == [voltage : Voltages, timestamp : Timestamps]

VARIABLES
    pc,              \* position of the process in main.py
    file,            \* buffer.json: [exists, content]
    env,             \* the network: "down", "flaky" (up, deliveries may fail), "stable"
    wlan,            \* TRUE: connect_wifi returned a handle; FALSE: None
    ifaceActive,     \* wlan.active(...) of the station interface
    attempt,         \* polls of connect_wifi that found the link down
    now,             \* the next value time.time() gives to a sample
    entry,           \* the reading of the current cycle, <<r>>, or <<>>
    buffer,          \* local `buffer` of save_to_buffer / flush_buffer
    idx,             \* position of the for loop of flush_buffer
    success_entries, \* local `success_entries` of flush_buffer
    tracked,         \* the current cycle's reading is within the tracked history
    sampled,         \* history: reading -> times sampled (crash-free histories)
    delivered,       \* history: reading -> send_data calls that returned True (same)
    crashed,         \* history: a pass or a cycle was cut short, or power was lost
    preWrite,        \* history: buffer.json when the last write was opened
    stoppedAt,       \* history: where the interruption found the process, or "none"
    nsamples,        \* readings taken so far, over all runs
    results,         \* history: send_data results of the current pass or cycle
    calls,           \* history: its send_data calls, [arg, resp], in order
    cycFile,         \* history: buffer.json when the current cycle sampled
    cycLink,         \* history: link state the current cycle decided on
    drained          \* history: the pass before confirmed every entry, no sample since

vars == <<pc, file, env, wlan, ifaceActive, attempt, now, entry, buffer, idx,
          success_entries, tracked, sampled, delivered, crashed, preWrite, stoppedAt,
          nsamples, results, calls, cycFile, cycLink, drained>>

----------------------------------------------------------------------------
\* JSON text of buffer.json, as tokens.

Tok(k, v, t) == [k |-> k, v |-> v, t |-> t]

OpenTok == Tok("[", 0, 0)

CloseTok == Tok("]", 0, 0)

\* json.dump(buffer, f): the array of {"voltage": v, "timestamp": t} objects.
json_dump(buf) ==
    <<OpenTok>> \o [i \in 1..Len(buf) |-> Tok("{}", buf[i].voltage, buf[i].timestamp)]
                \o <<CloseTok>>

\* json.load(f) raises ValueError unless the text is a complete array.
json_valid(c) ==
    /\ Len(c) >= 2
    /\ c[1] = OpenTok
    /\ c[Len(c)] = CloseTok
    /\ \A i \in 2..(Len(c) - 1) : c[i].k = "{}"

json_load(c) ==
    [i \in 1..(Len(c) - 2) |-> [voltage |-> c[i + 1].v, timestamp |-> c[i + 1].t]]

AbsentFile == [exists |-> FALSE, content |-> <<>>]

FileOf(c) == [exists |-> TRUE, content |-> c]

\* `BUFFER_FILE in os.listdir()` and the json.load that follows it succeed.
Readable(f) == f.exists => json_valid(f.content)

\* The queue a readable buffer.json holds (absent file: the empty queue).
QueueOf(f) == IF f.exists THEN json_load(f.content) ELSE <<>>

\* open(BUFFER_FILE, "w"): the file exists and is empty.
Truncated == FileOf(<<>>)

Prefixes(c) == {SubSeq(c, 1, n) : n \in 0..Len(c)}

----------------------------------------------------------------------------
\* Pure helpers of the code.

InSeq(e, s) == \E i \in 1..Len(s) : s[i] = e

Count(s, r) == Cardinality({i \in 1..Len(s) : s[i] = r})

Distinct(s) == \A i, j \in 1..Len(s) : s[i] = s[j] => i = j

\* What urequests.post can do, by the state of the network.
Responses(e) ==
    CASE e = "down" -> {"network_error", "timeout"}
      [] e = "flaky" -> {"ok", "server_error", "network_error", "timeout"}
      [] e = "stable" -> {"ok"}

\* send_data: True unless urequests.post raised.
send_data(resp) == resp \in {"ok", "server_error"}

\* Mutant of LinkConnected: the None handle of a failed connect is not tested.
LinkIgnoringHandle(w, e) == e # "down"

\* `wlan and wlan.isconnected()`.
LinkConnected(w, e) == w /\ e # "down"

\* Mutant of AppendEntry: the new entry is put first.
PrependEntry(buf, e) == <<e>> \o buf

\* buffer.append(entry) of save_to_buffer.
AppendEntry(buf, e) == Append(buf, e)

\* Mutants of Remaining: nothing is removed; as many entries as were confirmed
\* are cut off the front; the confirmed entries are the ones kept; only the
\* first confirmed entry is removed.
RemainingKeepAll(buf, succ) == buf

RemainingByCount(buf, succ) == SubSeq(buf, Len(succ) + 1, Len(buf))

RemainingInverted(buf, succ) == SelectSeq(buf, LAMBDA e : InSeq(e, succ))

RemainingFirstOnly(buf, succ) ==
    IF succ = <<>> THEN buf ELSE SelectSeq(buf, LAMBDA e : e # succ[1])

\* [e for e in buffer if e not in success_entries].
Remaining(buf, succ) == SelectSeq(buf, LAMBDA e : ~InSeq(e, succ))

NoHistory == [r \in Readings |-> 0]

Bump(h, r) == [h EXCEPT ![r] = @ + 1]

AllTrue(s) == \A i \in 1..Len(s) : s[i]

----------------------------------------------------------------------------
Init ==
    /\ pc = "connect"
    /\ file = AbsentFile
    /\ env \in {"down", "flaky", "stable"}
    /\ wlan = FALSE
    /\ ifaceActive = TRUE
    /\ attempt = 0
    /\ now = 0
    /\ entry = <<>>
    /\ buffer = <<>>
    /\ idx = 0
    /\ success_entries = <<>>
    /\ tracked = FALSE
    /\ sampled = NoHistory
    /\ delivered = NoHistory
    /\ crashed = FALSE
    /\ preWrite = AbsentFile
    /\ stoppedAt = "none"
    /\ nsamples = 0
    /\ results = <<>>
    /\ calls = <<>>
    /\ cycFile = AbsentFile
    /\ cycLink = FALSE
    /\ drained = FALSE

locals == <<entry, buffer, idx, success_entries>>

ghosts == <<tracked, sampled, delivered, crashed, preWrite, stoppedAt, nsamples,
            results, calls, cycFile, cycLink, drained>>

\* The network comes and goes; once "stable" it stays up and deliveries succeed.
EnvChange ==
    /\ env # "stable"
    /\ env' \in {"down", "flaky", "stable"} \ {env}
    /\ UNCHANGED <<pc, file, wlan, ifaceActive, attempt, now, locals, ghosts>>

----------------------------------------------------------------------------
\* connect_wifi

\* A poll finds the link up: return wlan.
ConnectUp ==
    /\ pc = "connect"
    /\ attempt < MaxAttempts
    /\ env # "down"
    /\ wlan' = TRUE
    /\ attempt' = 0
    /\ pc' = "flush"
    /\ UNCHANGED <<file, env, ifaceActive, now, locals, ghosts>>

\* A poll finds the link down: sleep one second and poll again.
ConnectWait ==
    /\ pc = "connect"
    /\ attempt < MaxAttempts
    /\ env = "down"
    /\ attempt' = attempt + 1
    /\ UNCHANGED <<pc, file, env, wlan, ifaceActive, now, locals, ghosts>>

\* Mutant of ConnectGiveUp: the connect is tried again from the start.
ConnectGiveUpRetry ==
    /\ pc = "connect"
    /\ attempt = MaxAttempts
    /\ attempt' = 0
    /\ UNCHANGED <<pc, file, env, wlan, ifaceActive, now, locals, ghosts>>

\* The for loop is exhausted: wlan.active(False); return None.
ConnectGiveUp ==
    /\ pc = "connect"
    /\ attempt = MaxAttempts
    /\ wlan' = FALSE
    /\ ifaceActive' = FALSE
    /\ attempt' = 0
    /\ pc' = "sample"
    /\ UNCHANGED <<file, env, now, locals, ghosts>>

----------------------------------------------------------------------------
\* flush_buffer (called when connect_wifi returned a handle)

\* Mutant of FlushAbsent: an absent file is replayed as an empty queue and
\* written back.
FlushAbsentCreates ==
    /\ pc = "flush"
    /\ ~file.exists
    /\ buffer' = <<>>
    /\ preWrite' = file
    /\ file' = Truncated
    /\ pc' = "flush_dump"
    /\ UNCHANGED <<env, wlan, ifaceActive, attempt, now, entry, idx, success_entries,
                   tracked, sampled, delivered, crashed, stoppedAt, nsamples, results,
                   calls, cycFile, cycLink, drained>>

\* BUFFER_FILE not in os.listdir(): return.
FlushAbsent ==
    /\ pc = "flush"
    /\ ~file.exists
    /\ pc' = "sample"
    /\ UNCHANGED <<file, env, wlan, ifaceActive, attempt, now, locals, ghosts>>

\* json.load raises ValueError, which nothing catches.
FlushCorrupt ==
    /\ pc = "flush"
    /\ file.exists
    /\ ~json_valid(file.content)
    /\ pc' = "died"
    /\ UNCHANGED <<file, env, wlan, ifaceActive, attempt, now, locals, ghosts>>

FlushLoad ==
    /\ pc = "flush"
    /\ file.exists
    /\ json_valid(file.content)
    /\ buffer' = json_load(file.content)
    /\ success_entries' = <<>>
    /\ idx' = 1
    /\ results' = <<>>
    /\ calls' = <<>>
    /\ pc' = "flush_send"
    /\ UNCHANGED <<file, env, wlan, ifaceActive, attempt, now, entry, tracked, sampled, delivered,
                   crashed, preWrite, stoppedAt, nsamples, cycFile, cycLink, drained>>

\* Mutant of FlushSend: the loop is left at the first send_data that returns
\* False.
FlushSendAbortOnFail ==
    /\ pc = "flush_send"
    /\ idx <= Len(buffer)
    /\ \E resp \in Responses(env) :
         LET ok == send_data(resp) IN
         /\ success_entries' = IF ok THEN Append(success_entries, buffer[idx])
                                     ELSE success_entries
         /\ delivered' = IF ok /\ ~crashed THEN Bump(delivered, buffer[idx])
                                           ELSE delivered
         /\ results' = Append(results, ok)
         /\ calls' = Append(calls, [arg |-> <<buffer[idx]>>, resp |-> resp])
         /\ idx' = IF ok THEN idx + 1 ELSE Len(buffer) + 1
    /\ UNCHANGED <<pc, file, env, wlan, ifaceActive, attempt, now, entry, buffer,
                   tracked, sampled, crashed, preWrite, stoppedAt, nsamples, cycFile,
                   cycLink, drained>>

\* One turn of `for entry in buffer`: send_data, and append on True.
FlushSend ==
    /\ pc = "flush_send"
    /\ idx <= Len(buffer)
    /\ \E resp \in Responses(env) :
         LET ok == send_data(resp) IN
         /\ success_entries' = IF ok THEN Append(success_entries, buffer[idx])
                                     ELSE success_entries
         /\ delivered' = IF ok /\ ~crashed THEN Bump(delivered, buffer[idx])
                                           ELSE delivered
         /\ results' = Append(results, ok)
         /\ calls' = Append(calls, [arg |-> <<buffer[idx]>>, resp |-> resp])
    /\ idx' = idx + 1
    /\ UNCHANGED <<pc, file, env, wlan, ifaceActive, attempt, now, entry, buffer, tracked, sampled,
                   crashed, preWrite, stoppedAt, nsamples, cycFile, cycLink, drained>>

\* The filter of line 106 and open(BUFFER_FILE, "w").
FlushOpen ==
    /\ pc = "flush_send"
    /\ idx > Len(buffer)
    /\ buffer' = Remaining(buffer, success_entries)
    /\ preWrite' = file
    /\ file' = Truncated
    /\ pc' = "flush_dump"
    /\ UNCHANGED <<env, wlan, ifaceActive, attempt, now, entry, idx, success_entries, tracked,
                   sampled, delivered, crashed, stoppedAt, nsamples, results, calls, cycFile, cycLink,
                   drained>>

\* json.dump(buffer, f) and the close of the with block.
FlushDump ==
    /\ pc = "flush_dump"
    /\ file' = FileOf(json_dump(buffer))
    /\ buffer' = <<>>
    /\ success_entries' = <<>>
    /\ idx' = 0
    /\ pc' = "flushed"
    /\ UNCHANGED <<env, wlan, ifaceActive, attempt, now, entry, tracked, sampled, delivered,
                   crashed, preWrite, stoppedAt, nsamples, results, calls, cycFile, cycLink,
                   drained>>

\* flush_buffer returns and the while loop is entered; the pass's history
\* (the file it loaded, the results of its send_data calls) ends here.
FlushReturn ==
    /\ pc = "flushed"
    /\ drained' = AllTrue(results)
    /\ results' = <<>>
    /\ calls' = <<>>
    /\ preWrite' = AbsentFile
    /\ pc' = "sample"
    /\ UNCHANGED <<file, env, wlan, ifaceActive, attempt, now, locals, tracked, sampled, delivered,
                   crashed, stoppedAt, nsamples, cycFile, cycLink>>

----------------------------------------------------------------------------
\* The sampling loop

\* read_voltage, time.time() and the test `wlan and wlan.isconnected()`.
Sample ==
    /\ pc = "sample"
    /\ nsamples < MaxSamples
    /\ \E v \in Voltages :
         LET r == [voltage |-> v, timestamp |-> now] IN
         /\ entry' = <<r>>
         /\ sampled' = IF crashed THEN sampled ELSE Bump(sampled, r)
    /\ now' = now + 1
    /\ nsamples' = nsamples + 1
    /\ tracked' = TRUE
    /\ cycFile' = file
    /\ cycLink' = (wlan /\ env # "down")
    /\ results' = <<>>
    /\ calls' = <<>>
    /\ drained' = FALSE
    /\ pc' = IF LinkConnected(wlan, env) THEN "send" ELSE "save"
    /\ UNCHANGED <<file, env, wlan, ifaceActive, attempt, buffer, idx, success_entries, delivered,
                   crashed, preWrite, stoppedAt>>

\* The same past the tracked history: the loop goes on, and the model follows
\* it only while the reading leaves no trace (the link is up, send_data
\* returns True).
SampleUntracked ==
    /\ pc = "sample"
    /\ nsamples = MaxSamples
    /\ LinkConnected(wlan, env)
    /\ entry' = <<>>
    /\ tracked' = FALSE
    /\ cycFile' = file
    /\ cycLink' = (wlan /\ env # "down")
    /\ results' = <<>>
    /\ calls' = <<>>
    /\ drained' = FALSE
    /\ pc' = "send"
    /\ UNCHANGED <<file, env, wlan, ifaceActive, attempt, now, buffer, idx, success_entries,
                   sampled, delivered, crashed, preWrite, stoppedAt, nsamples>>

\* send_data returned True: pass.
SendOk ==
    /\ pc = "send"
    /\ \E resp \in Responses(env) :
         /\ send_data(resp)
         /\ calls' = Append(calls, [arg |-> entry, resp |-> resp])
    /\ delivered' = IF tracked /\ ~crashed THEN Bump(delivered, entry[1]) ELSE delivered
    /\ results' = Append(results, TRUE)
    /\ pc' = "sleep"
    /\ UNCHANGED <<file, env, wlan, ifaceActive, attempt, now, locals, tracked, sampled, crashed,
                   preWrite, stoppedAt, nsamples, cycFile, cycLink, drained>>

\* send_data returned False: save_to_buffer.
SendFail ==
    /\ pc = "send"
    /\ tracked
    /\ \E resp \in Responses(env) :
         /\ ~send_data(resp)
         /\ calls' = Append(calls, [arg |-> entry, resp |-> resp])
    /\ results' = Append(results, FALSE)
    /\ pc' = "save"
    /\ UNCHANGED <<file, env, wlan, ifaceActive, attempt, now, locals, tracked, sampled, delivered,
                   crashed, preWrite, stoppedAt, nsamples, cycFile, cycLink, drained>>

\* Mutant of SaveCorrupt: the ValueError is swallowed and the queue taken to be
\* empty.
SaveCorruptSwallowed ==
    /\ pc = "save"
    /\ file.exists
    /\ ~json_valid(file.content)
    /\ buffer' = AppendEntry(<<>>, entry[1])
    /\ preWrite' = file
    /\ file' = Truncated
    /\ pc' = "save_dump"
    /\ UNCHANGED <<env, wlan, ifaceActive, attempt, now, entry, idx, success_entries,
                   tracked, sampled, delivered, crashed, stoppedAt, nsamples, results,
                   calls, cycFile, cycLink, drained>>

\* save_to_buffer: json.load raises ValueError, which nothing catches.
SaveCorrupt ==
    /\ pc = "save"
    /\ file.exists
    /\ ~json_valid(file.content)
    /\ pc' = "died"
    /\ UNCHANGED <<file, env, wlan, ifaceActive, attempt, now, locals, ghosts>>

\* save_to_buffer up to open(BUFFER_FILE, "w").
SaveOpen ==
    /\ pc = "save"
    /\ Readable(file)
    /\ buffer' = AppendEntry(QueueOf(file), entry[1])
    /\ preWrite' = file
    /\ file' = Truncated
    /\ pc' = "save_dump"
    /\ UNCHANGED <<env, wlan, ifaceActive, attempt, now, entry, idx, success_entries, tracked,
                   sampled, delivered, crashed, stoppedAt, nsamples, results, calls, cycFile, cycLink,
                   drained>>

\* json.dump(buffer, f) and the close of the with block.
SaveDump ==
    /\ pc = "save_dump"
    /\ file' = FileOf(json_dump(buffer))
    /\ buffer' = <<>>
    /\ preWrite' = AbsentFile
    /\ pc' = "sleep"
    /\ UNCHANGED <<env, wlan, ifaceActive, attempt, now, entry, idx, success_entries, tracked,
                   sampled, delivered, crashed, stoppedAt, nsamples, results, calls, cycFile, cycLink,
                   drained>>

\* Mutant of Sleep: a run without a link tries to connect again before the next
\* cycle.
SleepReconnect ==
    /\ pc = "sleep"
    /\ pc' = IF wlan THEN "sample" ELSE "connect"
    /\ attempt' = IF wlan THEN attempt ELSE 0
    /\ ifaceActive' = TRUE
    /\ entry' = <<>>
    /\ tracked' = FALSE
    /\ results' = <<>>
    /\ calls' = <<>>
    /\ cycFile' = AbsentFile
    /\ cycLink' = FALSE
    /\ UNCHANGED <<file, env, wlan, now, buffer, idx, success_entries, sampled,
                   delivered, crashed, preWrite, stoppedAt, nsamples, drained>>

\* Mutant of Sleep: a connected run replays the queue before every cycle.
SleepThenFlush ==
    /\ pc = "sleep"
    /\ pc' = IF wlan THEN "flush" ELSE "sample"
    /\ entry' = <<>>
    /\ tracked' = FALSE
    /\ results' = <<>>
    /\ calls' = <<>>
    /\ cycFile' = AbsentFile
    /\ cycLink' = FALSE
    /\ UNCHANGED <<file, env, wlan, ifaceActive, attempt, now, buffer, idx,
                   success_entries, sampled, delivered, crashed, preWrite, stoppedAt,
                   nsamples, drained>>

\* time.sleep(10) ends.
Sleep ==
    /\ pc = "sleep"
    /\ pc' = "sample"
    /\ entry' = <<>>
    /\ tracked' = FALSE
    /\ results' = <<>>
    /\ calls' = <<>>
    /\ cycFile' = AbsentFile
    /\ cycLink' = FALSE
    /\ UNCHANGED <<file, env, wlan, ifaceActive, attempt, now, buffer, idx, success_entries,
                   sampled, delivered, crashed, preWrite, stoppedAt, nsamples, drained>>

----------------------------------------------------------------------------
\* Interruption and restart

Running == {"connect", "flush", "flush_send", "flush_dump", "flushed", "sample",
            "send", "save", "save_dump", "sleep"}

\* Inside a replay pass or inside a cycle's delivery or save.
InOperation == {"flush_send", "flush_dump", "send", "save", "save_dump"}

\* Between open(BUFFER_FILE, "w") and the end of the with block.
Writing == {"flush_dump", "save_dump"}

\* What an interruption leaves of the process: nothing but, inside a write,
\* the sequence being written and the file as it was before (and, inside the
\* write of a pass, the results of the pass).
Halt(at, clean) ==
    /\ stoppedAt' = at
    /\ crashed' = (crashed \/ ~clean)
    /\ sampled' = IF clean \/ crashed THEN sampled ELSE NoHistory
    /\ delivered' = IF clean \/ crashed THEN delivered ELSE NoHistory
    /\ buffer' = IF at \in Writing THEN buffer ELSE <<>>
    /\ preWrite' = IF at \in Writing THEN preWrite ELSE AbsentFile
    /\ entry' = <<>>
    /\ idx' = 0
    /\ success_entries' = <<>>
    /\ tracked' = FALSE
    /\ results' = IF at = "flush_dump" THEN results ELSE <<>>
    /\ calls' = <<>>
    /\ cycFile' = AbsentFile
    /\ cycLink' = FALSE
    /\ wlan' = FALSE
    /\ attempt' = 0
    /\ UNCHANGED <<env, now, nsamples, drained>>

\* KeyboardInterrupt, raised wherever the process is; the with block closes
\* the file on what json.dump had written.
Interrupt ==
    /\ pc \in Running
    /\ pc' = "stopped"
    /\ IF pc \in Writing
         THEN \E c \in Prefixes(json_dump(buffer)) : file' = FileOf(c)
         ELSE file' = file
    /\ Halt(pc, pc \notin InOperation)
    /\ UNCHANGED ifaceActive

\* Power loss or reset; an open write leaves what reached the flash, or the
\* file as it was when the filesystem commits on close.
PowerLoss ==
    /\ pc \in Running
    /\ pc' = "off"
    /\ IF pc \in Writing
         THEN file' \in {FileOf(c) : c \in Prefixes(json_dump(buffer))} \cup {preWrite}
         ELSE file' = file
    /\ Halt(pc, FALSE)
    /\ ifaceActive' = FALSE

\* json.dump raises OSError (flash full, I/O error) in the write that ends a
\* pass: the with block closes the file on what was written, and nothing
\* catches the error.
FlushDumpFail ==
    /\ pc = "flush_dump"
    /\ pc' = "died"
    /\ \E n \in 0..(Len(json_dump(buffer)) - 1) :
         file' = FileOf(SubSeq(json_dump(buffer), 1, n))
    /\ Halt(pc, FALSE)
    /\ UNCHANGED ifaceActive

\* The same in the write of save_to_buffer.
SaveDumpFail ==
    /\ pc = "save_dump"
    /\ pc' = "died"
    /\ \E n \in 0..(Len(json_dump(buffer)) - 1) :
         file' = FileOf(SubSeq(json_dump(buffer), 1, n))
    /\ Halt(pc, FALSE)
    /\ UNCHANGED ifaceActive

\* The script starts again; the clock restarts (power cycle) or is kept.
Restart ==
    /\ pc \in {"stopped", "off", "died"}
    /\ pc' = "connect"
    /\ wlan' = FALSE
    /\ ifaceActive' = TRUE
    /\ attempt' = 0
    /\ now' \in {0, now}
    /\ entry' = <<>>
    /\ buffer' = <<>>
    /\ idx' = 0
    /\ success_entries' = <<>>
    /\ tracked' = FALSE
    /\ preWrite' = AbsentFile
    /\ stoppedAt' = "none"
    /\ results' = <<>>
    /\ calls' = <<>>
    /\ cycFile' = AbsentFile
    /\ cycLink' = FALSE
    /\ UNCHANGED <<file, env, sampled, delivered, crashed, nsamples, drained>>

----------------------------------------------------------------------------
Step ==
    \/ ConnectUp
    \/ ConnectWait
    \/ ConnectGiveUp
    \/ FlushAbsent
    \/ FlushCorrupt
    \/ FlushLoad
    \/ FlushSend
    \/ FlushOpen
    \/ FlushDump
    \/ FlushReturn
    \/ Sample
    \/ SampleUntracked
    \/ SendOk
    \/ SendFail
    \/ SaveCorrupt
    \/ SaveOpen
    \/ SaveDump
    \/ Sleep

Next ==
    \/ Step
    \/ EnvChange
    \/ Interrupt
    \/ PowerLoss
    \/ FlushDumpFail
    \/ SaveDumpFail
    \/ Restart

Spec == Init /\ [][Next]_vars

\* The interpreter keeps executing the script while it is neither interrupted
\* nor dead; the network and the user are under no obligation.
FairSpec == Spec /\ WF_vars(Step)

----------------------------------------------------------------------------
\* Properties

\* The persisted queue, where buffer.json can be loaded.
Queue == QueueOf(file)

\* The queue the replay pass loaded, while the pass's history is kept.
PassQueue == QueueOf(preWrite)

\* The process ended on a user stop, and no pass or cycle of the history was
\* cut short.
CleanEnd == pc = "stopped" /\ ~crashed

\* The entries of q whose send_data call returned False, in order.
RECURSIVE FailedOf(_, _)
FailedOf(q, res) ==
    IF q = <<>> THEN <<>>
    ELSE IF Head(res) THEN FailedOf(Tail(q), Tail(res))
         ELSE <<Head(q)>> \o FailedOf(Tail(q), Tail(res))

\* C1 (no-loss), as claimed: at process end, with no crash in the history, every
\* sampled reading has been confirmed delivered or is in the persisted queue;
\* counted per reading, since readings are told apart by value and timestamp.
C1_NoLoss ==
    CleanEnd =>
        \A r \in Readings : sampled[r] <= delivered[r] + Count(Queue, r)

\* C2 (redelivery on reconnect), as claimed: whenever the loop is running with
\* the link up for good, deliveries succeeding and a reading in the persisted
\* queue, eventually the queue is empty (or the loop has stopped running).
C2_Redelivery ==
    (/\ pc \in {"sample", "send", "sleep"}
     /\ wlan
     /\ env = "stable"
     /\ Readable(file)
     /\ Queue # <<>>)
        ~> (\/ Readable(file) /\ Queue = <<>>
            \/ pc \in {"stopped", "off", "died"})

\* C3 (no duplicate delivery): with no crash in the history, the successful
\* deliveries of a reading never outnumber its samplings; a cycle whose live
\* delivery succeeded leaves buffer.json as it was; and no entry confirmed by a
\* pass is in the queue the pass persisted.
C3_NoDuplicateDelivery ==
    ~crashed =>
        /\ \A r \in Readings : delivered[r] <= sampled[r]
        /\ (pc = "sleep" /\ results = <<TRUE>>) => file = cycFile
        /\ pc = "flushed" =>
             \A i \in 1..Len(results) : results[i] => ~InSeq(PassQueue[i], Queue)

C3_Witness ==
    /\ ~crashed
    /\ pc = "flushed"
    /\ Len(results) = 2
    /\ results[1]
    /\ ~results[2]
    /\ \E r \in Readings : delivered[r] = 2

\* C4: a reading of which a completed pass left fewer copies in buffer.json
\* had a send_data call return True for an equal entry in that pass; a
\* completed cycle leaves no fewer copies of any reading.
C4_RemovedOnlyIfConfirmed ==
    /\ pc = "flushed" =>
         \A r \in Readings :
            Count(Queue, r) < Count(PassQueue, r) =>
                \E i \in 1..Len(results) : results[i] /\ PassQueue[i] = r
    /\ (pc = "sleep" /\ Readable(cycFile)) =>
         \A r \in Readings : Count(Queue, r) >= Count(QueueOf(cycFile), r)

C4_Witness ==
    /\ pc = "flushed"
    /\ Len(PassQueue) = 3
    /\ Len(Queue) = 1
    /\ ~results[1]

\* C5, as claimed: after the replace that ends a replay pass no reading is
\* twice in buffer.json, whatever queue sampling cycles and clean restarts
\* had built.
C5_NoDuplicateInQueue == (pc = "flushed" /\ ~crashed) => Distinct(Queue)

\* C6 (partial-failure partition): a pass over pairwise distinct entries leaves
\* exactly the entries whose send_data call returned False, in their order.
C6_Partition ==
    (pc = "flushed" /\ Distinct(PassQueue)) => Queue = FailedOf(PassQueue, results)

C6_Witness ==
    /\ pc = "flushed"
    /\ Distinct(PassQueue)
    /\ results = <<TRUE, FALSE, TRUE>>

\* C7 (idempotent replay): a pass whose send_data calls all returned True
\* leaves the empty queue, and the pass that follows it with no sample in
\* between makes no send_data call and leaves the empty queue.
C7_IdempotentReplay ==
    pc = "flushed" =>
        /\ AllTrue(results) => (file.exists /\ Queue = <<>>)
        /\ drained => (results = <<>> /\ file.exists /\ Queue = <<>>)

C7_Witness ==
    /\ pc = "flushed"
    /\ drained
    /\ ~crashed
    /\ \E r \in Readings : delivered[r] > 0

\* C8 (live path): a cycle that found the link connected made exactly one
\* send_data call; on True buffer.json is as it was, on False it holds the
\* queue it held with the cycle's reading appended.
C8_LivePath ==
    (pc = "sleep" /\ cycLink) =>
        /\ Len(results) = 1
        /\ results[1] => file = cycFile
        /\ ~results[1] =>
             /\ file.exists
             /\ json_valid(file.content)
             /\ Queue = Append(QueueOf(cycFile), entry[1])

C8_Witness ==
    /\ pc = "sleep"
    /\ cycLink
    /\ results = <<FALSE>>
    /\ Len(Queue) = 2

\* C9 (buffered path): a cycle that found the link disconnected made no
\* send_data call and left the queue it found with its reading appended.
C9_BufferedPath ==
    (pc = "sleep" /\ ~cycLink) =>
        /\ results = <<>>
        /\ file.exists
        /\ json_valid(file.content)
        /\ Queue = Append(QueueOf(cycFile), entry[1])

C9_Witness ==
    /\ pc = "sleep"
    /\ ~cycLink
    /\ wlan
    /\ Len(Queue) = 2

\* C10 (crash-atomicity), as claimed: a process interrupted inside the write of
\* an append or of a replace leaves a buffer.json that loads, to the sequence
\* it held before the write or to the sequence being written.
C10_CrashAtomicWrite ==
    (pc \in {"stopped", "off"} /\ stoppedAt \in Writing) =>
        /\ Readable(file)
        /\ Queue \in {QueueOf(preWrite), buffer}

\* The positions inside flush_buffer, inside the while loop, and after the
\* process ended.
FlushPcs == {"flush", "flush_send", "flush_dump", "flushed"}

LoopPcs == {"sample", "send", "save", "save_dump", "sleep"}

Halted == {"stopped", "off", "died"}

\* C11 (unreadable queue fails loudly): with an unparsable buffer.json, neither
\* flush_buffer nor save_to_buffer goes on: the file is left as it is and the
\* only step the process itself can take is to die of the uncaught error.
C11_UnreadableFailsLoudly ==
    [][(file.exists /\ ~json_valid(file.content) /\ pc \in {"flush", "save"}) =>
          (file' = file /\ pc' \in {pc, "died", "stopped", "off"})]_vars

C11_Witness ==
    /\ pc = "died"
    /\ stoppedAt = "none"
    /\ file.exists
    /\ ~json_valid(file.content)
    /\ file.content # <<>>

\* C12, as claimed: a deliver call that failed (network error, server error
\* response, timeout) on the live path leaves the reading appended to the
\* queue, on the replay path leaves the entry in the queue, and the process
\* ends only on an interruption or a storage error.
C12_FailedDeliverRecovered ==
    /\ (pc = "sleep" /\ tracked /\ calls # <<>> /\ calls[1].resp # "ok") =>
         /\ file.exists
         /\ json_valid(file.content)
         /\ Queue = Append(QueueOf(cycFile), entry[1])
    /\ pc = "flushed" =>
         \A i \in 1..Len(calls) : calls[i].resp # "ok" => InSeq(PassQueue[i], Queue)
    /\ pc = "died" => (stoppedAt # "none" \/ ~Readable(file))

\* C13: a pass calls send_data once for every entry of the queue it loaded, in
\* the queue's order, whatever the earlier calls returned.
C13_OneCallPerEntryInOrder ==
    /\ pc = "flush_send" =>
         /\ Len(calls) = idx - 1
         /\ \A i \in 1..Len(calls) : calls[i].arg = <<buffer[i]>>
    /\ pc = "flushed" =>
         /\ Len(calls) = Len(PassQueue)
         /\ \A i \in 1..Len(calls) : calls[i].arg = <<PassQueue[i]>>

C13_Witness ==
    /\ pc = "flushed"
    /\ Len(calls) = 3
    /\ calls[1].resp = "timeout"
    /\ calls[2].resp = "ok"
    /\ calls[3].resp = "network_error"

\* C14 (replay no-op): flush_buffer runs only on a handle from connect_wifi and
\* only over an existing file; a failed connect and an absent file lead to the
\* loop with buffer.json as it was and no send_data call; a pass over an empty
\* queue makes no call and leaves the file as it was.
C14_ReplayNoOp ==
    /\ [](/\ pc \in FlushPcs => wlan
          /\ pc = "flush_send" => file.exists
          /\ pc \in {"flush_dump", "flushed"} => preWrite.exists
          /\ (pc = "flushed" /\ PassQueue = <<>>) => (calls = <<>> /\ file = preWrite))
    /\ [][/\ (pc = "connect" /\ pc' \notin {"connect", "flush"} \cup Halted) =>
               (pc' = "sample" /\ ~wlan' /\ file' = file /\ calls' = <<>>)
          /\ (pc = "flush" /\ ~file.exists /\ pc' \notin {"flush"} \cup Halted) =>
               (pc' = "sample" /\ file' = file /\ calls' = <<>>)]_vars

C14_Witness ==
    /\ pc = "flushed"
    /\ preWrite.exists
    /\ PassQueue = <<>>
    /\ env = "down"

\* C15, as claimed: when the write that ends a pass fails, buffer.json still
\* holds every entry whose send_data call returned False in the pass.
C15_ReplaceFailureLosesNothing ==
    (pc = "died" /\ stoppedAt = "flush_dump") =>
        \A i \in 1..Len(results) :
            ~results[i] => (Readable(file) /\ InSeq(QueueOf(preWrite)[i], Queue))

\* C16: in a run whose connect_wifi returned None the interface stays
\* deactivated and connect_wifi is not entered again; no cycle calls send_data
\* and every completed cycle has appended its reading to the queue.
C16_DisconnectedRunBuffers ==
    /\ []((~wlan /\ pc \in LoopPcs) =>
            /\ ~ifaceActive
            /\ pc # "send"
            /\ calls = <<>>
            /\ pc = "sleep" =>
                 /\ file.exists
                 /\ json_valid(file.content)
                 /\ Queue = Append(QueueOf(cycFile), entry[1]))
    /\ [][(~wlan /\ pc \in LoopPcs) =>
             (~wlan' /\ ~ifaceActive' /\ pc' \in LoopPcs \cup Halted)]_vars

C16_Witness ==
    /\ pc = "sleep"
    /\ ~wlan
    /\ env # "down"
    /\ Len(Queue) = 2

\* C17, as claimed: a user stop never finds the process inside a send_data
\* call, inside a queue write, or with a sampled reading neither delivered nor
\* appended.
C17_StopOnlyAtBoundary == pc = "stopped" => stoppedAt \notin InOperation

\* C18, as claimed: whatever connect_wifi returns, a run that nobody stops
\* enters the sampling loop.
C18_LoopAlwaysEntered ==
    (pc = "connect") ~> (pc = "sample" \/ pc \in {"stopped", "off"})

\* C18, amended: connect_wifi polls at most MaxAttempts times; it returns the
\* handle at a poll that finds the link up, having found it down at every poll
\* before, and None with the interface deactivated after MaxAttempts polls that
\* found it down; it always returns, and the run then enters the sampling
\* loop unless the process is stopped or the startup flush_buffer ends it with
\* a storage error.
C18_ConnectTerminates ==
    /\ [](attempt \in 0..MaxAttempts)
    /\ [][pc = "connect" =>
            /\ pc' = "flush" => (env # "down" /\ wlan' /\ ifaceActive')
            /\ pc' = "sample" => (attempt = MaxAttempts /\ ~wlan' /\ ~ifaceActive')
            /\ (pc' = "connect" /\ attempt' # attempt) =>
                 (env = "down" /\ attempt' = attempt + 1)]_vars
    /\ (pc = "connect") ~> (pc # "connect")
    /\ (pc \in {"connect", "flush", "flush_send", "flush_dump", "flushed"})
           ~> (pc = "sample" \/ pc \in Halted)

C18_Witness ==
    /\ pc = "sample"
    /\ nsamples = 0
    /\ ~wlan
    /\ ~ifaceActive
    /\ env # "down"

\* C19: flush_buffer is entered only from a successful startup connect, never
\* from the loop nor a second time in the run; every completed cycle leaves
\* buffer.json as it found it or holding the queue it found plus its reading.
C19_ReplayOnceQueueGrows ==
    /\ [](/\ pc \in FlushPcs => wlan
          /\ pc = "sleep" =>
               \/ file = cycFile
               \/ /\ tracked
                  /\ Readable(cycFile)
                  /\ file.exists
                  /\ json_valid(file.content)
                  /\ Queue = Append(QueueOf(cycFile), entry[1]))
    /\ [][/\ pc \in LoopPcs \cup {"flushed"} =>
               pc' \notin {"connect", "flush", "flush_send", "flush_dump"}
          /\ pc' = "flush" => pc \in {"connect", "flush"}]_vars

C19_Witness ==
    /\ pc = "sleep"
    /\ wlan
    /\ Len(Queue) = 3
    /\ file # cycFile
    /\ drained = FALSE

====
